---- MODULE Spec2Model ----
(***************************************************************************)
(* Usage aggregation of the Ona usage metrics dashboard.                   *)
(*                                                                         *)
(* aggregateByUser and aggregateByEnvironment (src/app/layout.tsx, lines   *)
(* 20-130) turn a list of usage records and a list of organisation members *)
(* into per-user and per-environment summaries.  Both are pure functions;  *)
(* they are modelled as operators and applied by the two actions of Spec   *)
(* to inputs that Init draws from bounded sets.                            *)
(*                                                                         *)
(* Representation:                                                         *)
(*  - an optional field (userId?: string) is <<>> when absent and <<s>>    *)
(*    when it holds the string s;                                          *)
(*  - a JavaScript number is [nan |-> BOOLEAN, v |-> Int]; NaN absorbs     *)
(*    every addition and subtraction, as in IEEE 754;                      *)
(*  - a quantity of hours h is held exactly, as the integer                *)
(*    h * (1000 * 60 * 60): the division of calculateDurationHours is by   *)
(*    a positive constant, so sums and comparisons are those of the code;  *)
(*  - a JavaScript Map is the sequence of its [key, value] entries in      *)
(*    insertion order.                                                     *)
(***************************************************************************)
EXTENDS Integers, Sequences, FiniteSets

VARIABLES records, members, userUsages, envUsages, returned

\* the state of the Dashboard component (src/app/page.tsx, lines 24-35; members,
\* userUsages and envUsages above are shared with it), the requests to
\* /api/usage that have not completed, the clock and the number of requests
VARIABLES dateRange, customStartDate, customEndDate, groupBy, loading, error,
          usageRecords, cache, inflight, now, requests

aggVars == <<records, returned>>

dashVars == <<dateRange, customStartDate, customEndDate, groupBy, loading, error,
              usageRecords, cache, inflight, now, requests>>

vars == <<records, members, userUsages, envUsages, returned, dashVars>>

(***************************************************************************)
(* Bounds of the model.                                                    *)
(***************************************************************************)
MaxRecords == 2
MaxMembers == 2
\* requests to /api/usage in one behaviour, and ticks of the clock
MaxRequests == 2
MaxTicks == 1
\* records of an input of the specification of the ties
MaxTiedRecords == 4

(***************************************************************************)
(* JavaScript numbers.                                                     *)
(***************************************************************************)
NaN == [nan |-> TRUE, v |-> 0]

Num(n) == [nan |-> FALSE, v |-> n]

Add(a, b) == IF a.nan \/ b.nan THEN NaN ELSE Num(a.v + b.v)

Sub(a, b) == IF a.nan \/ b.nan THEN NaN ELSE Num(a.v - b.v)

\* a >= b on JavaScript numbers: false as soon as one side is NaN
Geq(a, b) == ~a.nan /\ ~b.nan /\ a.v >= b.v

(***************************************************************************)
(* Optional fields and truthiness.                                         *)
(***************************************************************************)
None == <<>>

Some(s) == <<s>>

\* !x for x: string | undefined
Falsy(x) == x = None \/ x = Some("")

(***************************************************************************)
(* new Date(s).getTime(): milliseconds since the epoch, NaN for undefined  *)
(* and for a string that is not a date.                                    *)
(***************************************************************************)
MsPerHour == 1000 * 60 * 60

DateParse(x) ==
  IF x = None THEN NaN
  ELSE CASE x[1] = "1970-01-01T00:00:00Z" -> Num(0)
         [] x[1] = "1970-01-01T00:30:00Z" -> Num(MsPerHour \div 2)
         [] x[1] = "1970-01-01T01:00:00Z" -> Num(MsPerHour)
         [] x[1] = "1970-01-01T02:00:00Z" -> Num(2 * MsPerHour)
         [] OTHER -> NaN

\* faulty variant: a negative duration is clamped to 0 (Math.max(0, ...))
calculateDurationHours_clamped(startTime, endTime) ==
  LET d == Sub(DateParse(endTime), DateParse(startTime))
  IN IF ~d.nan /\ d.v < 0 THEN Num(0) ELSE d

\* (end - start) / (1000 * 60 * 60), held as the numerator over MsPerHour
calculateDurationHours(startTime, endTime) ==
  LET start == DateParse(startTime)
      end == DateParse(endTime)
  IN Sub(end, start)

(***************************************************************************)
(* Map<string, V> in insertion order.                                      *)
(***************************************************************************)
MapHas(map, k) == \E i \in 1..Len(map) : map[i].key = k

MapIndex(map, k) == CHOOSE i \in 1..Len(map) : map[i].key = k

MapGet(map, k) == map[MapIndex(map, k)].value

\* get() that may return undefined
MapGetOpt(map, k) == IF MapHas(map, k) THEN Some(MapGet(map, k)) ELSE None

MapSet(map, k, v) ==
  IF MapHas(map, k)
  THEN [map EXCEPT ![MapIndex(map, k)] = [key |-> k, value |-> v]]
  ELSE Append(map, [key |-> k, value |-> v])

RECURSIVE MapValues(_)
MapValues(map) ==
  IF map = <<>> THEN <<>> ELSE <<Head(map).value>> \o MapValues(Tail(map))

(***************************************************************************)
(* member?.fullName || record.userId  and  member?.email || ''             *)
(* (layout.tsx lines 45-46 and 103-104); member is None or Some(m).        *)
(***************************************************************************)
\* faulty variant: the directory is never consulted for the name
ResolveUserName_ignoreMember(member, userId) == userId

ResolveUserName(member, userId) ==
  IF member # None /\ member[1].fullName # "" THEN member[1].fullName ELSE userId

\* faulty variant: member?.email without the || '' fallback
ResolveEmail_noFallback(member) ==
  IF member # None THEN member[1].email ELSE "undefined"

ResolveEmail(member) ==
  IF member # None /\ member[1].email # "" THEN member[1].email ELSE ""

\* faulty variant: an entry already in the map is kept (first wins)
RECURSIVE BuildMemberMap_firstWins(_, _)
BuildMemberMap_firstWins(memberMap, ms) ==
  IF ms = <<>> THEN memberMap
  ELSE BuildMemberMap_firstWins(
         IF MapHas(memberMap, Head(ms).userId) THEN memberMap
         ELSE MapSet(memberMap, Head(ms).userId, Head(ms)),
         Tail(ms))

\* members.forEach(member => memberMap.set(member.userId, member))
RECURSIVE BuildMemberMap(_, _)
BuildMemberMap(memberMap, ms) ==
  IF ms = <<>> THEN memberMap
  ELSE BuildMemberMap(MapSet(memberMap, Head(ms).userId, Head(ms)), Tail(ms))

\* faulty variant: the guard looks at the two identifiers only
Eligible_onlyIds(record) ==
  ~(Falsy(record.userId) \/ Falsy(record.environmentId))

\* faulty variant: the guard forgets record.stoppedAt
Eligible_noStoppedAt(record) ==
  ~(Falsy(record.userId) \/ Falsy(record.createdAt) \/ Falsy(record.environmentId))

\* the guard of both forEach bodies: the record is aggregated iff none of
\* the four fields is falsy
Eligible(record) ==
  ~(Falsy(record.userId) \/ Falsy(record.createdAt)
      \/ Falsy(record.stoppedAt) \/ Falsy(record.environmentId))

\* faulty variant: = instead of +=
AddHours_assign(usage, durationHours) ==
  [usage EXCEPT !.totalHours = durationHours]

\* usage.totalHours += durationHours
AddHours(usage, durationHours) ==
  [usage EXCEPT !.totalHours = Add(@, durationHours)]

\* usage.sessions.push({startTime: record.createdAt, endTime: record.stoppedAt,
\* durationHours}); the two fields are copied as they are in the record
PushSession(usage, record, durationHours) ==
  [usage EXCEPT !.sessions =
     Append(@, [startTime |-> record.createdAt,
                endTime |-> record.stoppedAt,
                durationHours |-> durationHours])]

NewEnvironmentUsage(environmentId, userId, userName, email) ==
  [environmentId |-> environmentId, userId |-> userId, userName |-> userName,
   email |-> email, totalHours |-> Num(0), sessions |-> <<>>]

NewUserUsage(userId, userName, email) ==
  [userId |-> userId, userName |-> userName, email |-> email,
   totalHours |-> Num(0), environments |-> <<>>]

\* userUsage.environments.find(e => e.environmentId === id): index or 0
FindEnv(environments, environmentId) ==
  IF \E i \in 1..Len(environments) : environments[i].environmentId = environmentId
  THEN CHOOSE i \in 1..Len(environments) :
         /\ environments[i].environmentId = environmentId
         /\ \A j \in 1..(i - 1) : environments[j].environmentId # environmentId
  ELSE 0

\* faulty variant: the subview is pushed although find() found one
FindOrPushEnv_alwaysPush(environments, environmentId, userId, userName, email) ==
  Append(environments, NewEnvironmentUsage(environmentId, userId, userName, email))

\* faulty variant: unshift instead of push
FindOrPushEnv_unshift(environments, environmentId, userId, userName, email) ==
  IF FindEnv(environments, environmentId) = 0
  THEN <<NewEnvironmentUsage(environmentId, userId, userName, email)>> \o environments
  ELSE environments

\* if (!envUsage) { envUsage = {...}; userUsage.environments.push(envUsage) }
FindOrPushEnv(environments, environmentId, userId, userName, email) ==
  IF FindEnv(environments, environmentId) = 0
  THEN Append(environments, NewEnvironmentUsage(environmentId, userId, userName, email))
  ELSE environments

\* the body of records.forEach in aggregateByUser
UserStep(userMap, memberMap, record) ==
  IF ~Eligible(record) THEN userMap
  ELSE
    LET userId == record.userId[1]
        environmentId == record.environmentId[1]
        member == MapGetOpt(memberMap, userId)
        userName == ResolveUserName(member, userId)
        email == ResolveEmail(member)
        map1 == IF ~MapHas(userMap, userId)
                THEN MapSet(userMap, userId, NewUserUsage(userId, userName, email))
                ELSE userMap
        durationHours == calculateDurationHours(record.createdAt, record.stoppedAt)
        userUsage == AddHours(MapGet(map1, userId), durationHours)
        envs == FindOrPushEnv(userUsage.environments, environmentId,
                              userId, userName, email)
        i == FindEnv(envs, environmentId)
        envUsage == PushSession(AddHours(envs[i], durationHours), record, durationHours)
    IN MapSet(map1, userId,
              [userUsage EXCEPT !.environments = [envs EXCEPT ![i] = envUsage]])

RECURSIVE UserFold(_, _, _)
UserFold(userMap, memberMap, rs) ==
  IF rs = <<>> THEN userMap
  ELSE UserFold(UserStep(userMap, memberMap, Head(rs)), memberMap, Tail(rs))

\* `${record.environmentId}-${record.userId}`
EnvKey(environmentId, userId) == environmentId \o "-" \o userId

\* the body of records.forEach in aggregateByEnvironment
EnvStep(envMap, memberMap, record) ==
  IF ~Eligible(record) THEN envMap
  ELSE
    LET userId == record.userId[1]
        environmentId == record.environmentId[1]
        member == MapGetOpt(memberMap, userId)
        userName == ResolveUserName(member, userId)
        email == ResolveEmail(member)
        key == EnvKey(environmentId, userId)
        map1 == IF ~MapHas(envMap, key)
                THEN MapSet(envMap, key,
                            NewEnvironmentUsage(environmentId, userId, userName, email))
                ELSE envMap
        durationHours == calculateDurationHours(record.createdAt, record.stoppedAt)
        envUsage == PushSession(AddHours(MapGet(map1, key), durationHours),
                                record, durationHours)
    IN MapSet(map1, key, envUsage)

RECURSIVE EnvFold(_, _, _)
EnvFold(envMap, memberMap, rs) ==
  IF rs = <<>> THEN envMap
  ELSE EnvFold(EnvStep(envMap, memberMap, Head(rs)), memberMap, Tail(rs))

(***************************************************************************)
(* Array.prototype.sort((a, b) => b.totalHours - a.totalHours).            *)
(*                                                                         *)
(* The comparator's result is negative when a goes first; a NaN result is  *)
(* read as +0 (ECMAScript SortCompare).  The sort is stable.  When the     *)
(* comparator is not a consistent comparator for the elements (a NaN total *)
(* next to two different totals) ECMAScript leaves the order to the        *)
(* implementation: every permutation is then a possible outcome.           *)
(***************************************************************************)
Compare(a, b) ==
  LET d == Sub(b.totalHours, a.totalHours)
  IN IF d.nan THEN 0 ELSE IF d.v < 0 THEN -1 ELSE IF d.v > 0 THEN 1 ELSE 0

ConsistentComparator(list) ==
  \A i, j, k \in 1..Len(list) :
    LET a == list[i]
        b == list[j]
        c == list[k]
    IN /\ (Compare(a, b) = 0 /\ Compare(b, c) = 0) => Compare(a, c) = 0
       /\ (Compare(a, b) < 0 /\ Compare(b, c) < 0) => Compare(a, c) < 0
       /\ (Compare(a, b) > 0 /\ Compare(b, c) > 0) => Compare(a, c) > 0
       /\ (Compare(a, b) = 0 /\ Compare(b, c) < 0) => Compare(a, c) < 0
       /\ (Compare(a, b) = 0 /\ Compare(b, c) > 0) => Compare(a, c) > 0

\* x goes after every element that does not have to follow it
RECURSIVE InsertSorted(_, _)
InsertSorted(sorted, x) ==
  IF sorted = <<>> THEN <<x>>
  ELSE IF Compare(Head(sorted), x) <= 0
       THEN <<Head(sorted)>> \o InsertSorted(Tail(sorted), x)
       ELSE <<x>> \o sorted

RECURSIVE StableSort(_, _)
StableSort(sorted, rest) ==
  IF rest = <<>> THEN sorted
  ELSE StableSort(InsertSorted(sorted, Head(rest)), Tail(rest))

Reorderings(list) ==
  LET n == Len(list)
      P == {p \in [1..n -> 1..n] : \A i, j \in 1..n : p[i] = p[j] => i = j}
  IN {[i \in 1..n |-> list[p[i]]] : p \in P}

\* the lists that list.sort(...) can return
SortByTotalHoursDesc(list) ==
  IF ConsistentComparator(list) THEN {StableSort(<<>>, list)} ELSE Reorderings(list)

(***************************************************************************)
(* The two exported functions: the set of lists a call can return.         *)
(***************************************************************************)
aggregateByUser(rs, ms) ==
  LET memberMap == BuildMemberMap(<<>>, ms)
      userMap == UserFold(<<>>, memberMap, rs)
  IN SortByTotalHoursDesc(MapValues(userMap))

aggregateByEnvironment(rs, ms) ==
  LET memberMap == BuildMemberMap(<<>>, ms)
      envMap == EnvFold(<<>>, memberMap, rs)
  IN SortByTotalHoursDesc(MapValues(envMap))

(***************************************************************************)
(* Inputs.                                                                 *)
(***************************************************************************)
\* identifiers are arbitrary strings: "bob", "al-bob", "env" and "env-al"
Rec(u, e, c, s) == [userId |-> u, environmentId |-> e, createdAt |-> c, stoppedAt |-> s]

T0 == Some("1970-01-01T00:00:00Z")
T0h == Some("1970-01-01T00:30:00Z")
T1 == Some("1970-01-01T01:00:00Z")
T2 == Some("1970-01-01T02:00:00Z")

RecordDomain ==
  {Rec(Some("bob"), Some("env"), T0, T1),
   Rec(Some("bob"), Some("env-al"), T0, T2),
   Rec(Some("al-bob"), Some("env"), T0, T2),
   Rec(Some("al-bob"), Some("env"), T1, T0h),
   Rec(Some("bob"), Some("env"), T1, T1),
   Rec(Some("al-bob"), Some("env-al"), T0, Some("not a date")),
   Rec(Some(""), Some("env"), T0, T1),
   Rec(None, Some("env"), T0, T1),
   Rec(Some("bob"), None, T0, T1),
   Rec(Some("bob"), Some("env"), None, T1),
   Rec(Some("bob"), Some("env"), T0, None)}

Mem(u, n, e) == [userId |-> u, fullName |-> n, email |-> e]

MemberDomain ==
  {Mem("bob", "Bob", "bob@example.com"),
   Mem("bob", "", "robert@example.com"),
   Mem("al-bob", "Al", "")}

SeqsUpTo(S, n) == UNION {[1..k -> S] : k \in 0..n}

(***************************************************************************)
(* The state machine: a caller holding records and members calls each      *)
(* function once.                                                          *)
(***************************************************************************)
\* the useState initial values of the Dashboard, nothing requested yet
UseStateInit ==
  /\ dateRange = "7d"
  /\ customStartDate = ""
  /\ customEndDate = ""
  /\ groupBy = "user"
  /\ loading = FALSE
  /\ error = None
  /\ usageRecords = <<>>
  /\ cache = <<>>
  /\ inflight = {}
  /\ now = 0
  /\ requests = 0

Init ==
  /\ records \in SeqsUpTo(RecordDomain, MaxRecords)
  /\ members \in SeqsUpTo(MemberDomain, MaxMembers)
  /\ userUsages = <<>>
  /\ envUsages = <<>>
  /\ returned = {}
  /\ UseStateInit

CallAggregateByUser ==
  /\ "user" \notin returned
  /\ userUsages' \in aggregateByUser(records, members)
  /\ returned' = returned \cup {"user"}
  /\ UNCHANGED <<records, members, envUsages, dashVars>>

CallAggregateByEnvironment ==
  /\ "environment" \notin returned
  /\ envUsages' \in aggregateByEnvironment(records, members)
  /\ returned' = returned \cup {"environment"}
  /\ UNCHANGED <<records, members, userUsages, dashVars>>

Next == CallAggregateByUser \/ CallAggregateByEnvironment

Spec == Init /\ [][Next]_vars

(***************************************************************************)
(* Vocabulary of the properties, defined on the inputs alone.              *)
(***************************************************************************)
UserReturned == "user" \in returned

EnvReturned == "environment" \in returned

DurationOf(r) == calculateDurationHours(r.createdAt, r.stoppedAt)

RECURSIVE SumDurations(_)
SumDurations(rs) ==
  IF rs = <<>> THEN Num(0) ELSE Add(DurationOf(Head(rs)), SumDurations(Tail(rs)))

\* the eligible records of a user, and of an (environment, user) pair
RecordsOfUser(userId) ==
  SelectSeq(records, LAMBDA r : Eligible(r) /\ r.userId = Some(userId))

RecordsOfPair(environmentId, userId) ==
  SelectSeq(records, LAMBDA r : /\ Eligible(r)
                                /\ r.userId = Some(userId)
                                /\ r.environmentId = Some(environmentId))

\* a record that lacks one of the four fields
MissingField(r) ==
  r.userId = None \/ r.environmentId = None \/ r.createdAt = None \/ r.stoppedAt = None

RemoveAt(seq, i) == SubSeq(seq, 1, i - 1) \o SubSeq(seq, i + 1, Len(seq))

RECURSIVE CountSessions(_)
CountSessions(usages) ==
  IF usages = <<>> THEN 0 ELSE Len(Head(usages).sessions) + CountSessions(Tail(usages))

RECURSIVE CountUserSessions(_)
CountUserSessions(usages) ==
  IF usages = <<>> THEN 0
  ELSE CountSessions(Head(usages).environments) + CountUserSessions(Tail(usages))

(***************************************************************************)
(* C1.  Every UserUsage returned by aggregateByUser has totalHours equal   *)
(* to the sum of the durations of exactly the eligible records of its      *)
(* userId, across all environments.                                        *)
(***************************************************************************)
C1_UserTotalHours ==
  UserReturned =>
    \A i \in 1..Len(userUsages) :
      userUsages[i].totalHours = SumDurations(RecordsOfUser(userUsages[i].userId))

\* a user whose hours come from two environments
C1_Witness ==
  /\ UserReturned
  /\ \E i \in 1..Len(userUsages) :
       /\ Len(userUsages[i].environments) = 2
       /\ ~userUsages[i].totalHours.nan
       /\ userUsages[i].totalHours.v > 0

(***************************************************************************)
(* C2.  Every EnvironmentUsage returned by aggregateByEnvironment has      *)
(* totalHours equal to the sum of the durations of exactly the eligible    *)
(* records that have its environmentId and its userId.                     *)
(***************************************************************************)
C2_EnvTotalHours ==
  EnvReturned =>
    \A i \in 1..Len(envUsages) :
      envUsages[i].totalHours =
        SumDurations(RecordsOfPair(envUsages[i].environmentId, envUsages[i].userId))

(***************************************************************************)
(* C3.  aggregateByEnvironment groups by the pair (environmentId, userId): *)
(* it returns exactly one entry per distinct pair among the eligible       *)
(* records, and the sessions of an entry are as many as the eligible       *)
(* records of its own pair, so records of two pairs are never merged.      *)
(***************************************************************************)
C3_GroupsByPair ==
  EnvReturned =>
    /\ {<<envUsages[i].environmentId, envUsages[i].userId>> : i \in 1..Len(envUsages)}
         = {<<r.environmentId[1], r.userId[1]>> :
              r \in {records[k] : k \in {n \in 1..Len(records) : Eligible(records[n])}}}
    /\ \A i, j \in 1..Len(envUsages) :
         (/\ envUsages[i].environmentId = envUsages[j].environmentId
          /\ envUsages[i].userId = envUsages[j].userId) => i = j
    /\ \A i \in 1..Len(envUsages) :
         Len(envUsages[i].sessions)
           = Len(RecordsOfPair(envUsages[i].environmentId, envUsages[i].userId))

(***************************************************************************)
(* C4.  A record that lacks userId, environmentId, createdAt or stoppedAt  *)
(* contributes nothing: what either function returned is a result of the   *)
(* same call on the input without that record, and the sessions in the     *)
(* output are as many as the records that have all four fields non-empty.  *)
(***************************************************************************)
C4_IneligibleIgnored ==
  /\ \A i \in 1..Len(records) :
       MissingField(records[i]) =>
         /\ UserReturned => userUsages \in aggregateByUser(RemoveAt(records, i), members)
         /\ EnvReturned =>
              envUsages \in aggregateByEnvironment(RemoveAt(records, i), members)
  /\ LET n == Cardinality({k \in 1..Len(records) :
                             /\ ~MissingField(records[k])
                             /\ "" \notin {records[k].userId[1], records[k].environmentId[1],
                                           records[k].createdAt[1], records[k].stoppedAt[1]}})
     IN /\ UserReturned => CountUserSessions(userUsages) = n
        /\ EnvReturned => CountSessions(envUsages) = n

\* both functions returned entries although a record of the input lacks a field
C4_Witness ==
  /\ UserReturned
  /\ EnvReturned
  /\ userUsages # <<>>
  /\ envUsages # <<>>
  /\ \E i \in 1..Len(records) : MissingField(records[i])

(***************************************************************************)
(* C5.  Both returned lists are sorted by totalHours descending: of two    *)
(* adjacent entries the earlier has totalHours >= the later.               *)
(***************************************************************************)
C5_SortedDescending ==
  /\ UserReturned =>
       \A i \in 1..(Len(userUsages) - 1) :
         Geq(userUsages[i].totalHours, userUsages[i + 1].totalHours)
  /\ EnvReturned =>
       \A i \in 1..(Len(envUsages) - 1) :
         Geq(envUsages[i].totalHours, envUsages[i + 1].totalHours)

(***************************************************************************)
(* C6.  In every UserUsage the environments are in the order in which each *)
(* environmentId was first seen among the user's eligible records; they    *)
(* are not re-sorted by hours.                                             *)
(***************************************************************************)
RECURSIVE FirstSeen(_, _)
FirstSeen(seen, ids) ==
  IF ids = <<>> THEN seen
  ELSE FirstSeen(IF \E i \in 1..Len(seen) : seen[i] = Head(ids)
                 THEN seen ELSE Append(seen, Head(ids)),
                 Tail(ids))

EnvironmentIdsOf(rs) == [i \in 1..Len(rs) |-> rs[i].environmentId[1]]

C6_FirstSeenOrder ==
  UserReturned =>
    \A i \in 1..Len(userUsages) :
      LET envs == userUsages[i].environments
      IN [k \in 1..Len(envs) |-> envs[k].environmentId]
           = FirstSeen(<<>>, EnvironmentIdsOf(RecordsOfUser(userUsages[i].userId)))

\* a user whose later-seen environment has more hours than the first
C6_Witness ==
  /\ UserReturned
  /\ \E i \in 1..Len(userUsages) :
       LET envs == userUsages[i].environments
       IN /\ Len(envs) = 2
          /\ ~envs[1].totalHours.nan
          /\ ~envs[2].totalHours.nan
          /\ envs[2].totalHours.v > envs[1].totalHours.v

(***************************************************************************)
(* Directory resolution.  The member of a userId is the last entry of      *)
(* members that has it.                                                    *)
(***************************************************************************)
HasMember(userId) == \E i \in 1..Len(members) : members[i].userId = userId

MemberCount(userId) == Cardinality({i \in 1..Len(members) : members[i].userId = userId})

LastMember(userId) ==
  members[CHOOSE i \in 1..Len(members) :
            /\ members[i].userId = userId
            /\ \A j \in (i + 1)..Len(members) : members[j].userId # userId]

\* every entry of both outputs, the per-user environment subviews included,
\* as <<userId, userName, email>>
RECURSIVE SubviewsOf(_)
SubviewsOf(usages) ==
  IF usages = <<>> THEN <<>> ELSE Head(usages).environments \o SubviewsOf(Tail(usages))

Identity(e) == [userId |-> e.userId, userName |-> e.userName, email |-> e.email]

OutputIdentities ==
  LET of(list) == {Identity(list[i]) : i \in 1..Len(list)}
  IN (IF UserReturned THEN of(userUsages) \cup of(SubviewsOf(userUsages)) ELSE {})
       \cup (IF EnvReturned THEN of(envUsages) ELSE {})

(***************************************************************************)
(* C7, as stated.  An entry whose userId has a member carries that         *)
(* member's fullName as userName and email as email, whatever their        *)
(* values.                                                                 *)
(***************************************************************************)
C7_MemberNameAndEmail ==
  \A e \in OutputIdentities :
    HasMember(e.userId) =>
      /\ e.userName = LastMember(e.userId).fullName
      /\ e.email = LastMember(e.userId).email

(***************************************************************************)
(* C7, amended.  An entry whose userId has a member carries that member's  *)
(* email as email, and as userName the member's fullName when it is not    *)
(* empty and the userId when it is empty.                                  *)
(***************************************************************************)
C7_MemberNameOrUserId ==
  \A e \in OutputIdentities :
    HasMember(e.userId) =>
      /\ e.userName = IF LastMember(e.userId).fullName = ""
                      THEN e.userId ELSE LastMember(e.userId).fullName
      /\ e.email = LastMember(e.userId).email

\* both functions returned entries of users found in the directory: one
\* named by the directory and one whose member has an empty fullName
C7_Witness ==
  /\ UserReturned
  /\ EnvReturned
  /\ \E e \in OutputIdentities : HasMember(e.userId) /\ e.userName # e.userId
  /\ \E e \in OutputIdentities :
       HasMember(e.userId) /\ LastMember(e.userId).fullName = ""

(***************************************************************************)
(* C8.  An entry whose userId has no member (members may be empty) has     *)
(* userName equal to the userId and an empty email.                        *)
(***************************************************************************)
C8_AbsentFallback ==
  \A e \in OutputIdentities :
    ~HasMember(e.userId) => (e.userName = e.userId /\ e.email = "")

\* an entry of a user the non-empty directory does not have
C8_Witness ==
  /\ UserReturned
  /\ EnvReturned
  /\ members # <<>>
  /\ \E e \in OutputIdentities : ~HasMember(e.userId)

(***************************************************************************)
(* C10.  When members has several entries with the same userId, the last   *)
(* of them resolves userName and email of that user in both functions.     *)
(***************************************************************************)
C10_LastMemberWins ==
  \A e \in OutputIdentities :
    MemberCount(e.userId) > 1 =>
      LET last == LastMember(e.userId)
      IN /\ e.userName \in {last.fullName, e.userId}
         /\ e.userName = e.userId => last.fullName \in {"", e.userId}
         /\ e.email = last.email

\* a user with two different directory entries, resolved by both functions
C10_Witness ==
  /\ UserReturned
  /\ EnvReturned
  /\ \E e \in OutputIdentities :
       /\ MemberCount(e.userId) > 1
       /\ \E i, j \in 1..Len(members) :
            /\ members[i].userId = e.userId
            /\ members[j].userId = e.userId
            /\ members[i] # members[j]

(***************************************************************************)
(* C11.  Both functions return a list for every input, records lacking     *)
(* any subset of their fields included: a call can always return, and what *)
(* it returns is the empty list when every record lacks a field.           *)
(***************************************************************************)
NoRecordEligible == \A i \in 1..Len(records) : MissingField(records[i])

\* the inputs never change, so the possible results are looked at before the calls
C11_AlwaysReturnsList ==
  /\ returned = {} =>
       /\ aggregateByUser(records, members) # {}
       /\ aggregateByEnvironment(records, members) # {}
       /\ \A out \in aggregateByUser(records, members)
                       \cup aggregateByEnvironment(records, members) :
            /\ DOMAIN out = 1..Len(out)
            /\ NoRecordEligible => out = <<>>
  /\ UserReturned => DOMAIN userUsages = 1..Len(userUsages)
  /\ EnvReturned => DOMAIN envUsages = 1..Len(envUsages)
  /\ (UserReturned /\ NoRecordEligible) => userUsages = <<>>
  /\ (EnvReturned /\ NoRecordEligible) => envUsages = <<>>

\* both functions returned the empty list for records that all lack a field
C11_Witness ==
  /\ UserReturned
  /\ EnvReturned
  /\ Len(records) = MaxRecords
  /\ NoRecordEligible
  /\ members # <<>>
  /\ userUsages = <<>>
  /\ envUsages = <<>>

(***************************************************************************)
(* C14.  aggregateByUser returns exactly one UserUsage per distinct userId *)
(* of the eligible records, and in it exactly one environment subview per  *)
(* distinct environmentId of that user's eligible records.                 *)
(***************************************************************************)
Range(seq) == {seq[i] : i \in 1..Len(seq)}

C14_OneEntryPerKey ==
  UserReturned =>
    /\ {userUsages[i].userId : i \in 1..Len(userUsages)}
         = {r.userId[1] : r \in {x \in Range(records) : Eligible(x)}}
    /\ \A i, j \in 1..Len(userUsages) :
         userUsages[i].userId = userUsages[j].userId => i = j
    /\ \A i \in 1..Len(userUsages) :
         LET envs == userUsages[i].environments
         IN /\ {envs[k].environmentId : k \in 1..Len(envs)}
                 = {r.environmentId[1] : r \in Range(RecordsOfUser(userUsages[i].userId))}
            /\ \A k, l \in 1..Len(envs) :
                 envs[k].environmentId = envs[l].environmentId => k = l

\* two records of one user and one environment share one subview of one entry
C14_Witness ==
  /\ UserReturned
  /\ Len(userUsages) = 1
  /\ Len(userUsages[1].environments) = 1
  /\ Len(userUsages[1].environments[1].sessions) = 2

(***************************************************************************)
(* C15.  In every group (an entry of aggregateByEnvironment, an            *)
(* environment subview of aggregateByUser) the sessions are the eligible   *)
(* records of the group's (environmentId, userId), one entry each in input *)
(* order, with createdAt as startTime, stoppedAt as endTime and the        *)
(* record's own durationHours.                                             *)
(***************************************************************************)
SessionsOf(rs) ==
  [i \in 1..Len(rs) |-> [startTime |-> rs[i].createdAt,
                         endTime |-> rs[i].stoppedAt,
                         durationHours |-> DurationOf(rs[i])]]

SessionsOfOwnPair(e) ==
  e.sessions = SessionsOf(RecordsOfPair(e.environmentId, e.userId))

C15_SessionsInInputOrder ==
  /\ UserReturned =>
       \A i \in 1..Len(SubviewsOf(userUsages)) : SessionsOfOwnPair(SubviewsOf(userUsages)[i])
  /\ EnvReturned =>
       \A i \in 1..Len(envUsages) : SessionsOfOwnPair(envUsages[i])

(***************************************************************************)
(* C16.  Temporal order is not validated.  A record with four non-empty    *)
(* fields whose stoppedAt is not later than its createdAt is aggregated:   *)
(* it is a session of its user's subview for its environment and of an     *)
(* entry of aggregateByEnvironment, with durationHours = stoppedAt -       *)
(* createdAt <= 0; and every total is the sum of the durationHours below   *)
(* it, so the session lowers its group's totalHours by that amount.        *)
(***************************************************************************)
NotAfter(r) ==
  /\ ~MissingField(r)
  /\ "" \notin {r.userId[1], r.environmentId[1]}
  /\ ~DateParse(r.createdAt).nan
  /\ ~DateParse(r.stoppedAt).nan
  /\ DateParse(r.stoppedAt).v <= DateParse(r.createdAt).v

SessionFor(r) ==
  [startTime |-> r.createdAt, endTime |-> r.stoppedAt,
   durationHours |-> Num(DateParse(r.stoppedAt).v - DateParse(r.createdAt).v)]

RECURSIVE SumOf(_, _)
SumOf(list, field) ==
  IF list = <<>> THEN Num(0)
  ELSE Add(Head(list)[field], SumOf(Tail(list), field))

C16_NegativeDurationKept ==
  /\ UserReturned =>
       /\ \A r \in {x \in Range(records) : NotAfter(x)} :
            \E i \in 1..Len(userUsages) :
              /\ userUsages[i].userId = r.userId[1]
              /\ \E k \in 1..Len(userUsages[i].environments) :
                   /\ userUsages[i].environments[k].environmentId = r.environmentId[1]
                   /\ SessionFor(r) \in Range(userUsages[i].environments[k].sessions)
       /\ \A i \in 1..Len(userUsages) :
            userUsages[i].totalHours = SumOf(userUsages[i].environments, "totalHours")
       /\ \A i \in 1..Len(SubviewsOf(userUsages)) :
            SubviewsOf(userUsages)[i].totalHours
              = SumOf(SubviewsOf(userUsages)[i].sessions, "durationHours")
  /\ EnvReturned =>
       /\ \A r \in {x \in Range(records) : NotAfter(x)} :
            \E i \in 1..Len(envUsages) : SessionFor(r) \in Range(envUsages[i].sessions)
       /\ \A i \in 1..Len(envUsages) :
            envUsages[i].totalHours = SumOf(envUsages[i].sessions, "durationHours")

\* a group whose total is negative, next to a record of zero duration
C16_Witness ==
  /\ UserReturned
  /\ EnvReturned
  /\ \E i \in 1..Len(userUsages) :
       ~userUsages[i].totalHours.nan /\ userUsages[i].totalHours.v < 0
  /\ \E i \in 1..Len(envUsages) :
       ~envUsages[i].totalHours.nan /\ envUsages[i].totalHours.v < 0
  /\ \E r \in Range(records) :
       NotAfter(r) /\ DateParse(r.stoppedAt) = DateParse(r.createdAt)

(***************************************************************************)
(* C18.  The environment subviews inside the entries of aggregateByUser    *)
(* and the entries of aggregateByEnvironment are the same multiset: the    *)
(* subview of a pair and the entry of that pair agree on userName, email,  *)
(* totalHours and sessions.                                                *)
(***************************************************************************)
C18_CrossViewConsistency ==
  (UserReturned /\ EnvReturned) =>
    /\ Len(SubviewsOf(userUsages)) = Len(envUsages)
    /\ Range(SubviewsOf(userUsages)) = Range(envUsages)

(***************************************************************************)
(* The Dashboard component (src/app/page.tsx).                             *)
(*                                                                         *)
(* An event handler, the render it causes and the effects of that render   *)
(* run without interruption, and so does the continuation of               *)
(* fetchUsageData after its awaits: each is one action.  The instants of   *)
(* the clock are milliseconds after the first render; the clock advances   *)
(* in steps of TickMs.                                                     *)
(***************************************************************************)
DateRanges == {"today", "yesterday", "7d", "30d", "6m", "12m", "custom"}

\* the options the user picks in the behaviours: one whose start is a fixed
\* day, two whose start moves with the clock, and the custom range
SelectedRanges == {"today", "7d", "30d", "custom"}

GroupBys == {"user", "environment"}

\* the values of the two <input type="date">
CustomDates == {"", "2024-01-01"}

CACHE_DURATION == 5 * 60 * 1000

TickMs == 150 * 1000

\* toISOString() of an instant: the instant itself for the clock, a day
\* relative to the day of the first render, or the day of a date input
Iso(what, t) == <<what, t>>

\* getDateRangeValues(); now is new Date(), and the behaviours stay within
\* one day, so that the start of the day does not move
getDateRangeValues(range, start, end, t) ==
  CASE range = "today" ->
         [startTime |-> Iso("start of day", 0), endTime |-> Iso("now", t)]
    [] range = "yesterday" ->
         [startTime |-> Iso("start of day", -1), endTime |-> Iso("now", t)]
    [] range = "30d" ->
         [startTime |-> Iso("30 days before", t), endTime |-> Iso("now", t)]
    [] range = "6m" ->
         [startTime |-> Iso("6 months before", t), endTime |-> Iso("now", t)]
    [] range = "12m" ->
         [startTime |-> Iso("12 months before", t), endTime |-> Iso("now", t)]
    [] range = "custom" ->
         [startTime |-> Iso(start, 0), endTime |-> Iso(end, 0)]
    [] OTHER ->
         [startTime |-> Iso("7 days before", t), endTime |-> Iso("now", t)]

\* `${startTime}-${endTime}`: ISO strings have one format, the pair decides
CacheKey(vals) == <<vals.startTime, vals.endTime>>

\* the condition of the first effect
FetchGuard(range, start, end) == range # "custom" \/ (start # "" /\ end # "")

(***************************************************************************)
(* GET /api/usage (src/app/api/usage/route.ts): the records upstream has   *)
(* for the range, and no members, since the page sends no organizationId.  *)
(***************************************************************************)
UpstreamRecords(startTime) ==
  CASE startTime = Iso("start of day", 0) -> <<>>
    [] startTime = Iso("start of day", -1) -> <<Rec(Some("bob"), Some("env"), T0, T1)>>
    [] startTime[1] = "7 days before" ->
         <<Rec(Some("bob"), Some("env"), T0, T1), Rec(Some("bob"), Some("env-al"), T0, T2)>>
    [] startTime[1] = "30 days before" ->
         <<Rec(Some("bob"), Some("env-al"), T0, T2), Rec(Some("al-bob"), Some("env"), T0, T2)>>
    [] startTime[1] = "6 months before" ->
         <<Rec(Some("al-bob"), Some("env"), T0, T2), Rec(Some("bob"), Some("env"), T0, T1)>>
    [] startTime[1] = "12 months before" ->
         <<Rec(Some("al-bob"), Some("env"), T1, T0h)>>
    [] OTHER ->
         <<Rec(Some("bob"), Some("env"), T0, None), Rec(Some("al-bob"), Some("env"), T0, T2)>>

UpstreamMembers == <<>>

\* how a request ends: response.ok, a response that is not ok, a throw
Outcomes == {"ok", "notOk", "throws"}

\* err.message: errorData.error of route.ts, or the TypeError of fetch
ErrorMessage(outcome) ==
  IF outcome = "notOk" THEN "ONA_PAT environment variable is not set"
  ELSE "Failed to fetch"

(***************************************************************************)
(* The second effect: deps [usageRecords, members, groupBy].               *)
(***************************************************************************)
\* an effect that only ever recomputes the view by user
AggregationEffect_userOnly(rs, ms, g) ==
  IF Len(rs) > 0 /\ g = "user"
  THEN /\ userUsages' \in aggregateByUser(rs, ms)
       /\ UNCHANGED envUsages
  ELSE UNCHANGED <<userUsages, envUsages>>

AggregationEffect(rs, ms, g) ==
  IF Len(rs) > 0
  THEN IF g = "user"
       THEN /\ userUsages' \in aggregateByUser(rs, ms)
            /\ UNCHANGED envUsages
       ELSE /\ envUsages' \in aggregateByEnvironment(rs, ms)
            /\ UNCHANGED userUsages
  ELSE UNCHANGED <<userUsages, envUsages>>

\* a call of fetch(): what the continuation of fetchUsageData keeps in its
\* closure, the cache of the render that started it included
Request(id, vals, c, t) ==
  [id |-> id, startTime |-> vals.startTime, cacheKey |-> CacheKey(vals),
   cache |-> c, now |-> t]

\* fetchUsageData() up to its first await, for the selection of the render
FetchUsageData(range, start, end) ==
  LET vals == getDateRangeValues(range, start, end, now)
      cachedData == MapGetOpt(cache, CacheKey(vals))
  IN IF cachedData # None /\ (now - cachedData[1].timestamp) < CACHE_DURATION
     THEN /\ usageRecords' = cachedData[1].usageRecords
          /\ members' = cachedData[1].members
          /\ loading' = FALSE
          /\ error' = None
          /\ AggregationEffect(cachedData[1].usageRecords, cachedData[1].members, groupBy)
          /\ UNCHANGED <<cache, inflight, requests>>
     ELSE /\ requests < MaxRequests
          /\ inflight' = inflight \cup {Request(requests + 1, vals, cache, now)}
          /\ requests' = requests + 1
          /\ loading' = TRUE
          /\ error' = None
          /\ UNCHANGED <<usageRecords, members, cache, userUsages, envUsages>>

\* the first effect: deps [dateRange, customStartDate, customEndDate]
FetchEffect(range, start, end) ==
  IF FetchGuard(range, start, end)
  THEN FetchUsageData(range, start, end)
  ELSE UNCHANGED <<loading, error, usageRecords, members, cache, inflight, requests,
                   userUsages, envUsages>>

SetDateRange(value) ==
  /\ value # dateRange
  /\ dateRange' = value
  /\ FetchEffect(value, customStartDate, customEndDate)
  /\ UNCHANGED <<customStartDate, customEndDate, groupBy, now, aggVars>>

\* the date inputs are rendered while dateRange is 'custom'
SetCustomStartDate(value) ==
  /\ dateRange = "custom"
  /\ value # customStartDate
  /\ customStartDate' = value
  /\ FetchEffect(dateRange, value, customEndDate)
  /\ UNCHANGED <<dateRange, customEndDate, groupBy, now, aggVars>>

SetCustomEndDate(value) ==
  /\ dateRange = "custom"
  /\ value # customEndDate
  /\ customEndDate' = value
  /\ FetchEffect(dateRange, customStartDate, value)
  /\ UNCHANGED <<dateRange, customStartDate, groupBy, now, aggVars>>

\* groupBy among the deps of the first effect
SetGroupBy_refetch(value) ==
  /\ value # groupBy
  /\ groupBy' = value
  /\ FetchUsageData(dateRange, customStartDate, customEndDate)
  /\ UNCHANGED <<dateRange, customStartDate, customEndDate, now, aggVars>>

SetGroupBy(value) ==
  /\ value # groupBy
  /\ groupBy' = value
  /\ AggregationEffect(usageRecords, members, value)
  /\ UNCHANGED <<dateRange, customStartDate, customEndDate, loading, error,
                 usageRecords, members, cache, inflight, now, requests, aggVars>>

\* a catch block that also empties the data shown
CompleteFetch_clearsData(f, outcome) ==
  /\ f \in inflight
  /\ inflight' = inflight \ {f}
  /\ loading' = FALSE
  /\ IF outcome = "ok"
     THEN /\ usageRecords' = UpstreamRecords(f.startTime)
          /\ members' = UpstreamMembers
          /\ cache' = MapSet(f.cache, f.cacheKey,
                             [usageRecords |-> UpstreamRecords(f.startTime),
                              members |-> UpstreamMembers,
                              timestamp |-> f.now])
          /\ AggregationEffect(UpstreamRecords(f.startTime), UpstreamMembers, groupBy)
          /\ UNCHANGED error
     ELSE /\ error' = Some(ErrorMessage(outcome))
          /\ usageRecords' = <<>>
          /\ UNCHANGED <<members, cache, userUsages, envUsages>>
  /\ UNCHANGED <<dateRange, customStartDate, customEndDate, groupBy, now, requests,
                 aggVars>>

\* fetchUsageData() after its awaits: the response, then finally
CompleteFetch(f, outcome) ==
  /\ f \in inflight
  /\ inflight' = inflight \ {f}
  /\ loading' = FALSE
  /\ IF outcome = "ok"
     THEN /\ usageRecords' = UpstreamRecords(f.startTime)
          /\ members' = UpstreamMembers
          /\ cache' = MapSet(f.cache, f.cacheKey,
                             [usageRecords |-> UpstreamRecords(f.startTime),
                              members |-> UpstreamMembers,
                              timestamp |-> f.now])
          /\ AggregationEffect(UpstreamRecords(f.startTime), UpstreamMembers, groupBy)
          /\ UNCHANGED error
     ELSE /\ error' = Some(ErrorMessage(outcome))
          /\ UNCHANGED <<usageRecords, members, cache, userUsages, envUsages>>
  /\ UNCHANGED <<dateRange, customStartDate, customEndDate, groupBy, now, requests,
                 aggVars>>

Tick ==
  /\ now < MaxTicks * TickMs
  /\ now' = now + TickMs
  /\ UNCHANGED <<dateRange, customStartDate, customEndDate, groupBy, loading, error,
                 usageRecords, members, cache, inflight, requests, userUsages,
                 envUsages, aggVars>>

\* the first render and its effects: the request for the last 7 days is out
DashInit ==
  /\ dateRange = "7d"
  /\ customStartDate = ""
  /\ customEndDate = ""
  /\ groupBy = "user"
  /\ loading = TRUE
  /\ error = None
  /\ usageRecords = <<>>
  /\ members = <<>>
  /\ userUsages = <<>>
  /\ envUsages = <<>>
  /\ cache = <<>>
  /\ now = 0
  /\ requests = 1
  /\ inflight = {Request(1, getDateRangeValues("7d", "", "", 0), <<>>, 0)}
  /\ records = <<>>
  /\ returned = {}

DashNext ==
  \/ \E value \in SelectedRanges : SetDateRange(value)
  \/ \E value \in CustomDates : SetCustomStartDate(value)
  \/ \E value \in CustomDates : SetCustomEndDate(value)
  \/ \E value \in GroupBys : SetGroupBy(value)
  \/ \E f \in inflight, outcome \in Outcomes : CompleteFetch(f, outcome)
  \/ Tick

DashSpec == DashInit /\ [][DashNext]_vars

(***************************************************************************)
(* Vocabulary of the dashboard properties.                                 *)
(***************************************************************************)
Selection == <<dateRange, customStartDate, customEndDate>>

\* a step that changes the selection to one the first effect fetches for
SelectionFetches ==
  /\ Selection' # Selection
  /\ dateRange' # "custom" \/ (customStartDate' # "" /\ customEndDate' # "")

\* what /api/usage returns for a selection
ResponseFor(range, start, end) ==
  UpstreamRecords(getDateRangeValues(range, start, end, 0).startTime)

\* the cache holds the response to a request made for this selection less
\* than 5 minutes ago
FetchedLately(range, start, end) ==
  \E i \in 1..Len(cache) :
    /\ cache[i].key
         = CacheKey(getDateRangeValues(range, start, end, cache[i].value.timestamp))
    /\ now - cache[i].value.timestamp < CACHE_DURATION

\* a step in which a request ends with a response that is not ok or a throw
FetchFails == \E f \in inflight, outcome \in Outcomes \ {"ok"} : CompleteFetch(f, outcome)

(***************************************************************************)
(* C12.  After a successful fetch for a date range, selecting that range   *)
(* again less than 5 minutes later is served from the cache: the step      *)
(* issues no request and shows the response of that range.                 *)
(***************************************************************************)
C12_ReselectionServedFromCache ==
  [][(SelectionFetches /\ FetchedLately(dateRange', customStartDate', customEndDate'))
       => /\ inflight' = inflight
          /\ requests' = requests
          /\ usageRecords' = ResponseFor(dateRange', customStartDate', customEndDate')]_vars

(***************************************************************************)
(* C13.  Switching the grouping issues no request and leaves usageRecords, *)
(* members and the cache as they are; the view of the new grouping is      *)
(* recomputed from the data held, and nothing else changes.                *)
(***************************************************************************)
C13_GroupingSwitchIsLocal ==
  [][groupBy' # groupBy
       => /\ inflight' = inflight
          /\ requests' = requests
          /\ usageRecords' = usageRecords
          /\ members' = members
          /\ cache' = cache
          /\ loading' = loading
          /\ error' = error
          /\ IF usageRecords = <<>>
             THEN userUsages' = userUsages /\ envUsages' = envUsages
             ELSE IF groupBy' = "user"
                  THEN /\ userUsages' \in aggregateByUser(usageRecords, members)
                       /\ envUsages' = envUsages
                  ELSE /\ envUsages' \in aggregateByEnvironment(usageRecords, members)
                       /\ userUsages' = userUsages]_vars

\* the grouping was switched over fetched data: the only request is the first
C13_Witness ==
  /\ groupBy = "environment"
  /\ usageRecords # <<>>
  /\ envUsages \in aggregateByEnvironment(usageRecords, members)
  /\ cache # <<>>
  /\ inflight = {}
  /\ requests = 1

(***************************************************************************)
(* C17.  A fetch that fails leaves a message in error and loading false,   *)
(* and usageRecords, members and the cache as they were; a step that       *)
(* starts a fetch clears the error.                                        *)
(***************************************************************************)
C17_FailureKeepsData ==
  [][/\ FetchFails
          => /\ error' \in {Some("ONA_PAT environment variable is not set"),
                            Some("Failed to fetch")}
             /\ loading' = FALSE
             /\ usageRecords' = usageRecords
             /\ members' = members
             /\ cache' = cache
     /\ (SelectionFetches \/ requests' # requests) => error' = None]_vars

\* a fetch failed after an earlier one had succeeded: its data is still held
C17_Witness ==
  /\ error # None
  /\ ~loading
  /\ usageRecords # <<>>
  /\ cache # <<>>
  /\ inflight = {}
  /\ requests = MaxRequests

(***************************************************************************)
(* C19.  Once no fetch is in flight and none has failed, the usageRecords  *)
(* and members held are the response for the selected date range, whatever *)
(* the order in which the responses arrived.                               *)
(***************************************************************************)
C19_LatestSelectionWins ==
  (inflight = {} /\ error = None /\ FetchGuard(dateRange, customStartDate, customEndDate))
    => /\ usageRecords = ResponseFor(dateRange, customStartDate, customEndDate)
       /\ members = UpstreamMembers

(***************************************************************************)
(* C20.  loading is true whenever a fetch has started and not finished.    *)
(***************************************************************************)
C20_LoadingWhileInFlight == inflight # {} => loading

(***************************************************************************)
(* C21.  Whenever the table is shown (no fetch in flight, not loading, no  *)
(* error, usageRecords not empty), the rows of the current grouping are    *)
(* the aggregate of the usageRecords and members held: userUsages a result *)
(* of aggregateByUser when groupBy is 'user', envUsages a result of        *)
(* aggregateByEnvironment when it is 'environment'.                        *)
(***************************************************************************)
TableShown == inflight = {} /\ ~loading /\ error = None /\ usageRecords # <<>>

C21_ViewMatchesData ==
  TableShown =>
    IF groupBy = "user"
    THEN userUsages \in aggregateByUser(usageRecords, members)
    ELSE envUsages \in aggregateByEnvironment(usageRecords, members)

\* the table by environment is shown after a change of date range and a switch
\* of grouping, while the view by user is still that of the earlier data
C21_Witness ==
  /\ TableShown
  /\ groupBy = "environment"
  /\ dateRange # "7d"
  /\ requests = MaxRequests
  /\ envUsages \in aggregateByEnvironment(usageRecords, members)
  /\ userUsages # <<>>
  /\ userUsages \notin aggregateByUser(usageRecords, members)

(***************************************************************************)
(* C22.  Every successful response is stored in the cache under the key of *)
(* its request, and no step removes a key from the cache: the cache only   *)
(* grows or has an entry overwritten under the same key, also when the     *)
(* fetches that complete were in flight at the same time.                  *)
(***************************************************************************)
C22_NoLostCacheUpdate ==
  [][/\ \A i \in 1..Len(cache) : MapHas(cache', cache[i].key)
     /\ \A f \in inflight : CompleteFetch(f, "ok") => MapHas(cache', f.cacheKey)]_vars

(***************************************************************************)
(* Inputs with ties: four users of one environment, two of them with one   *)
(* hour each, one with two hours, one whose stoppedAt is not a date.  The  *)
(* caller of Spec applies the two functions to them.                       *)
(***************************************************************************)
TiedDomain ==
  {Rec(Some("bob"), Some("env"), T0, T1),
   Rec(Some("carol"), Some("env"), T1, T2),
   Rec(Some("dan"), Some("env"), T0, T2),
   Rec(Some("al-bob"), Some("env"), T0, Some("not a date"))}

TiedInit ==
  /\ records \in SeqsUpTo(TiedDomain, MaxTiedRecords)
  /\ members = <<>>
  /\ userUsages = <<>>
  /\ envUsages = <<>>
  /\ returned = {}
  /\ UseStateInit

TiedSpec == TiedInit /\ [][Next]_vars

\* the position in the input of the first eligible record of a user, and of an
\* (environment, user) pair
FirstRecordOfUser(userId) ==
  CHOOSE i \in 1..Len(records) :
    /\ Eligible(records[i]) /\ records[i].userId = Some(userId)
    /\ \A j \in 1..(i - 1) : ~(Eligible(records[j]) /\ records[j].userId = Some(userId))

FirstRecordOfPair(environmentId, userId) ==
  CHOOSE i \in 1..Len(records) :
    /\ Eligible(records[i])
    /\ records[i].userId = Some(userId)
    /\ records[i].environmentId = Some(environmentId)
    /\ \A j \in 1..(i - 1) : ~(/\ Eligible(records[j])
                               /\ records[j].userId = Some(userId)
                               /\ records[j].environmentId = Some(environmentId))

\* equal totalHours: NaN is equal to nothing
EqualHours(a, b) == ~a.totalHours.nan /\ ~b.totalHours.nan /\ a.totalHours.v = b.totalHours.v

====
